---- MODULE Spec2Model ----
(***************************************************************************)
(* Model of the oi1 codec (src/src/core/oi1-algorithm.js): CRC32, the      *)
(* OI1Encoder and the OI1Decoder.  Plaintexts are JavaScript strings, i.e. *)
(* sequences of UTF-16 code units (integers); ciphertexts are sequences of *)
(* one-character strings; binary strings are sequences of "0" and "1".     *)
(***************************************************************************)
EXTENDS Integers, Sequences, FiniteSets, TLC

\* ------------------------------------------------------------------ bounds

\* longest plaintext, in UTF-16 code units
MaxLen == 2
\* longest raw byte sequence offered as a v1 ciphertext
MaxBytes == 2
\* longest hand-typed ciphertext
MaxRawLen == 21

\* code units the plaintexts are drawn from: H, i, e-acute (2 bytes),
\* U+4E2D (CJK, 3 bytes), U+FEFF (byte order mark), and the surrogate pair
\* D83D DE00 of U+1F600, whose halves may also stand alone
CodeUnits == {72, 105, 233, 20013, 65279, 55357, 56832}

\* bytes the raw v1 ciphertexts are drawn from: ASCII, a continuation byte,
\* lead bytes of 2-, 3- and 4-byte sequences, the overlong lead C0 and FF
RawBytes == {72, 128, 169, 195, 192, 224, 237, 160, 239, 187, 191, 240, 255}

Plaintexts == UNION {[1..n -> CodeUnits] : n \in 0..MaxLen}

RawByteSeqs == UNION {[1..n -> RawBytes] : n \in 1..MaxBytes}

\* a hand-typed ciphertext of n characters: all "O", except an "X" at
\* position p and a "1" at position q (0: nowhere)
RawString(n, p, q) ==
    [i \in 1..n |-> IF i = p THEN "X" ELSE IF i = q THEN "1" ELSE "O"]

RawInputs ==
    {RawString(n, p, q) : n \in 0..MaxRawLen, p \in 0..MaxRawLen, q \in 0..MaxRawLen}

\* ------------------------------------------------------- the symbol tables

\* BINARY_TO_CHAR with the digit one in place of the lower-case L
BINARY_TO_CHAR_digitOne ==
    (<<"0", "0">> :> "O") @@ (<<"0", "1">> :> "0") @@
    (<<"1", "0">> :> "I") @@ (<<"1", "1">> :> "1")

BINARY_TO_CHAR ==
    (<<"0", "0">> :> "O") @@ (<<"0", "1">> :> "0") @@
    (<<"1", "0">> :> "I") @@ (<<"1", "1">> :> "l")

\* CHAR_TO_BINARY with the groups of I and l exchanged
CHAR_TO_BINARY_swapped ==
    ("O" :> <<"0", "0">>) @@ ("0" :> <<"0", "1">>) @@
    ("I" :> <<"1", "1">>) @@ ("l" :> <<"1", "0">>)

CHAR_TO_BINARY ==
    ("O" :> <<"0", "0">>) @@ ("0" :> <<"0", "1">>) @@
    ("I" :> <<"1", "0">>) @@ ("l" :> <<"1", "1">>)

VALID_CIPHER_CHARS == {"O", "0", "I", "l"}

\* ------------------------------------------------- 32-bit integer helpers
\* A 32-bit unsigned value (what ">>> 0" yields) is a Word: the tuple of its
\* four bytes, most significant first.

\* a ^ b on 4-bit values
XorNibble ==
    [a \in 0..15 |-> [b \in 0..15 |->
        ((((a \div 8) % 2) + ((b \div 8) % 2)) % 2) * 8 +
        ((((a \div 4) % 2) + ((b \div 4) % 2)) % 2) * 4 +
        ((((a \div 2) % 2) + ((b \div 2) % 2)) % 2) * 2 +
        (((a % 2) + (b % 2)) % 2)]]

\* a ^ b on byte values
XorByte(a, b) ==
    XorNibble[a \div 16][b \div 16] * 16 + XorNibble[a % 16][b % 16]

\* a ^ b on 32-bit values
XorWord(a, b) ==
    <<XorByte(a[1], b[1]), XorByte(a[2], b[2]),
      XorByte(a[3], b[3]), XorByte(a[4], b[4])>>

\* a >>> 1
ShiftRight1(a) ==
    <<a[1] \div 2,
      (a[2] \div 2) + (a[1] % 2) * 128,
      (a[3] \div 2) + (a[2] % 2) * 128,
      (a[4] \div 2) + (a[3] % 2) * 128>>

\* a >>> 8
ShiftRight8(a) == <<0, a[1], a[2], a[3]>>

\* the 32-bit value of a number 0..255
WordOfByte(v) == <<0, 0, 0, v>>

\* byte.toString(2).padStart(8, '0')
RECURSIVE ToBinary(_, _)
ToBinary(v, width) ==
    IF width = 0 THEN <<>>
    ELSE ToBinary(v \div 2, width - 1) \o <<IF v % 2 = 1 THEN "1" ELSE "0">>

\* parseInt(binaryByte, 2)
RECURSIVE ParseBinary(_)
ParseBinary(bits) ==
    IF bits = <<>> THEN 0
    ELSE 2 * ParseBinary(SubSeq(bits, 1, Len(bits) - 1)) +
         (IF bits[Len(bits)] = "1" THEN 1 ELSE 0)

\* ------------------------------------------------------------------ CRC32

\* 0xEDB88320
polynomial == <<237, 184, 131, 32>>

\* the inner loop of _generateTable: j more rounds on crc
RECURSIVE TableEntry(_, _)
TableEntry(crc, j) ==
    IF j = 0 THEN crc
    ELSE TableEntry(IF crc[4] % 2 = 1 THEN XorWord(ShiftRight1(crc), polynomial)
                    ELSE ShiftRight1(crc), j - 1)

\* CRC32._generateTable: the 256-entry lookup table (index 0..255)
generateTable == [i \in 0..255 |-> TableEntry(WordOfByte(i), 8)]

\* the loop of calculate with "^=" for "^" in its assignment
\* (crc = this.table[...] ^= crc >>> 8): every round also stores the new
\* register in the entry of the table it read
RECURSIVE CrcFold_writesTable(_, _, _, _)
CrcFold_writesTable(table, crc, bytes, i) ==
    IF i > Len(bytes) THEN [crc |-> crc, table |-> table]
    ELSE LET index == XorByte(crc[4], bytes[i] % 256)
             next == XorWord(table[index], ShiftRight8(crc))
         IN  CrcFold_writesTable([table EXCEPT ![index] = next], next,
                                 bytes, i + 1)

\* the loop of CRC32.calculate from bytes[i] on: the local crc and
\* this.table when the loop ends. A round reads one entry of the table and
\* assigns crc; it assigns nothing of the instance.
RECURSIVE CrcFold(_, _, _, _)
CrcFold(table, crc, bytes, i) ==
    IF i > Len(bytes) THEN [crc |-> crc, table |-> table]
    ELSE CrcFold(table,
                 XorWord(table[XorByte(crc[4], bytes[i] % 256)], ShiftRight8(crc)),
                 bytes, i + 1)

\* this.table of a CRC32 instance. The constructor of every instance
\* (the encoder's, the decoder's, those the demo generators create per call)
\* builds the same table, and one variable stands for them.
VARIABLE table

\* calculate with the register starting at 0 instead of 0xFFFFFFFF
calculate_initZero(bytes) ==
    XorWord(CrcFold(table, <<0, 0, 0, 0>>, bytes, 1).crc,
            <<255, 255, 255, 255>>)

\* CRC32.calculate: the value returned
calculate(bytes) ==
    XorWord(CrcFold(table, <<255, 255, 255, 255>>, bytes, 1).crc,
            <<255, 255, 255, 255>>)

\* CRC32.calculate: this.table when the call returns
tableAfterCalculate(bytes) ==
    CrcFold(table, <<255, 255, 255, 255>>, bytes, 1).table

\* _binaryToChars: the symbols of a binary string, two bits each
RECURSIVE PairsToChars(_)
PairsToChars(bits) ==
    IF bits = <<>> THEN <<>>
    ELSE <<BINARY_TO_CHAR[<<bits[1], bits[2]>>]>> \o
         PairsToChars(SubSeq(bits, 3, Len(bits)))

binaryToChars(binaryString) ==
    LET paddingLength == (2 - (Len(binaryString) % 2)) % 2
        paddedBinary == binaryString \o [k \in 1..paddingLength |-> "0"]
    IN  PairsToChars(paddedBinary)

\* the binary string of a byte sequence (step 3 of encode)
RECURSIVE BytesToBinary(_)
BytesToBinary(bytes) ==
    IF bytes = <<>> THEN <<>>
    ELSE ToBinary(Head(bytes), 8) \o BytesToBinary(Tail(bytes))

\* toOI1String with the four bytes taken least significant first
toOI1String_littleEndian(crc32) ==
    PairsToChars(BytesToBinary(<<crc32[4], crc32[3], crc32[2], crc32[1]>>))

\* CRC32.toOI1String
toOI1String(crc32) ==
    PairsToChars(BytesToBinary(<<crc32[1], crc32[2], crc32[3], crc32[4]>>))

\* the binary string of a symbol string (CHAR_TO_BINARY per character)
RECURSIVE CharsToBinary(_)
CharsToBinary(chars) ==
    IF chars = <<>> THEN <<>>
    ELSE CHAR_TO_BINARY[Head(chars)] \o CharsToBinary(Tail(chars))

\* fromOI1String losing bit 31 (the most significant bit is never set)
fromOI1String_dropTopBit(oi1String) ==
    LET binaryString == CharsToBinary(oi1String)
    IN  <<ParseBinary(SubSeq(binaryString, 2, 8)),
          ParseBinary(SubSeq(binaryString, 9, 16)),
          ParseBinary(SubSeq(binaryString, 17, 24)),
          ParseBinary(SubSeq(binaryString, 25, 32))>>

\* CRC32.fromOI1String, for a 16-character string over the alphabet
fromOI1String(oi1String) ==
    LET binaryString == CharsToBinary(oi1String)
    IN  <<ParseBinary(SubSeq(binaryString, 1, 8)),
          ParseBinary(SubSeq(binaryString, 9, 16)),
          ParseBinary(SubSeq(binaryString, 17, 24)),
          ParseBinary(SubSeq(binaryString, 25, 32))>>

\* ------------------------------------------- TextEncoder and TextDecoder

IsHighSurrogate(u) == u >= 55296 /\ u <= 56319

IsLowSurrogate(u) == u >= 56320 /\ u <= 57343

\* the UTF-8 bytes of one code point
Utf8OfCodePoint(cp) ==
    IF cp < 128 THEN <<cp>>
    ELSE IF cp < 2048 THEN <<192 + (cp \div 64), 128 + (cp % 64)>>
    ELSE IF cp < 65536
         THEN <<224 + (cp \div 4096), 128 + ((cp \div 64) % 64), 128 + (cp % 64)>>
    ELSE <<240 + (cp \div 262144), 128 + ((cp \div 4096) % 64),
           128 + ((cp \div 64) % 64), 128 + (cp % 64)>>

\* new TextEncoder().encode(s): a surrogate pair is one code point, a lone
\* surrogate is replaced by U+FFFD
RECURSIVE TextEncoderEncode(_)
TextEncoderEncode(s) ==
    IF s = <<>> THEN <<>>
    ELSE IF IsHighSurrogate(s[1]) /\ Len(s) >= 2 /\ IsLowSurrogate(s[2])
         THEN Utf8OfCodePoint(65536 + (s[1] - 55296) * 1024 + (s[2] - 56320))
              \o TextEncoderEncode(SubSeq(s, 3, Len(s)))
    ELSE IF IsHighSurrogate(s[1]) \/ IsLowSurrogate(s[1])
         THEN Utf8OfCodePoint(65533) \o TextEncoderEncode(Tail(s))
    ELSE Utf8OfCodePoint(s[1]) \o TextEncoderEncode(Tail(s))

\* the number of continuation bytes a lead byte announces (-1: no lead byte)
Utf8Needed(lead) ==
    IF lead <= 127 THEN 0
    ELSE IF lead >= 194 /\ lead <= 223 THEN 1
    ELSE IF lead >= 224 /\ lead <= 239 THEN 2
    ELSE IF lead >= 240 /\ lead <= 244 THEN 3
    ELSE -1

\* the range allowed for the first continuation byte after a lead byte
Utf8Lower(lead) == IF lead = 224 THEN 160 ELSE IF lead = 240 THEN 144 ELSE 128

Utf8Upper(lead) == IF lead = 237 THEN 159 ELSE IF lead = 244 THEN 143 ELSE 191

\* the code point of the sequence of n+1 bytes starting at bytes[i]
Utf8CodePoint(bytes, i, n) ==
    IF n = 0 THEN bytes[i]
    ELSE IF n = 1 THEN (bytes[i] % 32) * 64 + (bytes[i + 1] % 64)
    ELSE IF n = 2
         THEN (bytes[i] % 16) * 4096 + (bytes[i + 1] % 64) * 64 + (bytes[i + 2] % 64)
    ELSE (bytes[i] % 8) * 262144 + (bytes[i + 1] % 64) * 4096 +
         (bytes[i + 2] % 64) * 64 + (bytes[i + 3] % 64)

\* whether a well-formed sequence of n+1 bytes starts at bytes[i]
Utf8SequenceAt(bytes, i, n) ==
    /\ n >= 0
    /\ i + n <= Len(bytes)
    /\ n >= 1 => /\ bytes[i + 1] >= Utf8Lower(bytes[i])
                 /\ bytes[i + 1] <= Utf8Upper(bytes[i])
    /\ \A k \in 2..n : bytes[i + k] >= 128 /\ bytes[i + k] <= 191

\* the UTF-16 code units of a code point
Utf16OfCodePoint(cp) ==
    IF cp < 65536 THEN <<cp>>
    ELSE <<55296 + ((cp - 65536) \div 1024), 56320 + ((cp - 65536) % 1024)>>

\* the UTF-8 decoder with fatal: true, from bytes[i]: the code points, or
\* failure on the first ill-formed sequence
RECURSIVE Utf8Decode(_, _)
Utf8Decode(bytes, i) ==
    IF i > Len(bytes) THEN [ok |-> TRUE, codePoints |-> <<>>]
    ELSE LET n == Utf8Needed(bytes[i])
         IN  IF ~Utf8SequenceAt(bytes, i, n)
             THEN [ok |-> FALSE, codePoints |-> <<>>]
             ELSE LET rest == Utf8Decode(bytes, i + n + 1)
                  IN  IF ~rest.ok THEN rest
                      ELSE [ok |-> TRUE,
                            codePoints |-> <<Utf8CodePoint(bytes, i, n)>>
                                           \o rest.codePoints]

RECURSIVE Utf16OfCodePoints(_)
Utf16OfCodePoints(cps) ==
    IF cps = <<>> THEN <<>>
    ELSE Utf16OfCodePoint(Head(cps)) \o Utf16OfCodePoints(Tail(cps))

\* new TextDecoder('utf-8', {fatal: true}).decode(bytes): ignoreBOM is left
\* at its default (false), so a leading U+FEFF is removed from the output
TextDecoderDecode(bytes) ==
    LET r == Utf8Decode(bytes, 1)
    IN  IF ~r.ok THEN [ok |-> FALSE, text |-> <<>>]
        ELSE IF r.codePoints # <<>> /\ Head(r.codePoints) = 65279
             THEN [ok |-> TRUE, text |-> Utf16OfCodePoints(Tail(r.codePoints))]
        ELSE [ok |-> TRUE, text |-> Utf16OfCodePoints(r.codePoints)]

\* ------------------------------------------------------------ OI1Encoder

\* encode without the checksum block appended
encode_mainCipherOnly(plaintext) ==
    IF plaintext = <<>> THEN <<>>
    ELSE binaryToChars(BytesToBinary(TextEncoderEncode(plaintext)))

\* OI1Encoder.encode, for a string argument
\* encode with the checksum block written before the main cipher
encode_checksumFirst(plaintext) ==
    IF plaintext = <<>> THEN <<>>
    ELSE LET bytes == TextEncoderEncode(plaintext)
         IN  toOI1String(calculate(bytes)) \o binaryToChars(BytesToBinary(bytes))

encode(plaintext) ==
    IF plaintext = <<>> THEN <<>>
    ELSE LET bytes == TextEncoderEncode(plaintext)
             crc32Value == calculate(bytes)
             crcString == toOI1String(crc32Value)
             binaryString == BytesToBinary(bytes)
             mainCipher == binaryToChars(binaryString)
         IN  mainCipher \o crcString

\* detectFormat with "length >= 16" as the v2 test
detectFormat_from16(ciphertext) ==
    LET length == Len(ciphertext)
    IN  IF ciphertext = <<>>
        THEN [version |-> "unknown", hasCRC |-> FALSE, isValid |-> FALSE]
        ELSE IF length >= 16 /\ (length - 16) % 4 = 0
        THEN [version |-> "v2", hasCRC |-> TRUE, isValid |-> TRUE,
              mainCipherLength |-> length - 16, crcLength |-> 16]
        ELSE IF length % 4 = 0 /\ length > 0
        THEN [version |-> "v1", hasCRC |-> FALSE, isValid |-> TRUE,
              mainCipherLength |-> length, crcLength |-> 0]
        ELSE [version |-> "unknown", hasCRC |-> FALSE, isValid |-> FALSE]

\* OI1Encoder.detectFormat, for a string argument
\* detectFormat taking every even length as v1
detectFormat_evenLength(ciphertext) ==
    LET length == Len(ciphertext)
    IN  IF ciphertext = <<>>
        THEN [version |-> "unknown", hasCRC |-> FALSE, isValid |-> FALSE]
        ELSE IF length > 16 /\ (length - 16) % 4 = 0
        THEN [version |-> "v2", hasCRC |-> TRUE, isValid |-> TRUE,
              mainCipherLength |-> length - 16, crcLength |-> 16]
        ELSE IF length % 2 = 0 /\ length > 0
        THEN [version |-> "v1", hasCRC |-> FALSE, isValid |-> TRUE,
              mainCipherLength |-> length, crcLength |-> 0]
        ELSE [version |-> "unknown", hasCRC |-> FALSE, isValid |-> FALSE]

\* detectFormat counting the checksum block in the main cipher of v2
detectFormat_wholeLength(ciphertext) ==
    LET length == Len(ciphertext)
    IN  IF ciphertext = <<>>
        THEN [version |-> "unknown", hasCRC |-> FALSE, isValid |-> FALSE]
        ELSE IF length > 16 /\ (length - 16) % 4 = 0
        THEN [version |-> "v2", hasCRC |-> TRUE, isValid |-> TRUE,
              mainCipherLength |-> length, crcLength |-> 16]
        ELSE IF length % 4 = 0 /\ length > 0
        THEN [version |-> "v1", hasCRC |-> FALSE, isValid |-> TRUE,
              mainCipherLength |-> length, crcLength |-> 0]
        ELSE [version |-> "unknown", hasCRC |-> FALSE, isValid |-> FALSE]

detectFormat(ciphertext) ==
    LET length == Len(ciphertext)
    IN  IF ciphertext = <<>>
        THEN [version |-> "unknown", hasCRC |-> FALSE, isValid |-> FALSE]
        ELSE IF length > 16 /\ (length - 16) % 4 = 0
        THEN [version |-> "v2", hasCRC |-> TRUE, isValid |-> TRUE,
              mainCipherLength |-> length - 16, crcLength |-> 16]
        ELSE IF length % 4 = 0 /\ length > 0
        THEN [version |-> "v1", hasCRC |-> FALSE, isValid |-> TRUE,
              mainCipherLength |-> length, crcLength |-> 0]
        ELSE [version |-> "unknown", hasCRC |-> FALSE, isValid |-> FALSE]

\* ------------------------------------------------------------ OI1Decoder

\* the index of the first character outside VALID_CIPHER_CHARS (0: none)
FirstInvalid(ciphertext) ==
    LET bad == {i \in 1..Len(ciphertext) : ciphertext[i] \notin VALID_CIPHER_CHARS}
    IN  IF bad = {} THEN 0 ELSE CHOOSE i \in bad : \A j \in bad : i <= j

\* validateCiphertext reporting the index i itself instead of i + 1
validateCiphertext_zeroBased(ciphertext) ==
    IF ciphertext = <<>>
    THEN [isValid |-> FALSE, error |-> [text |-> "empty"]]
    ELSE LET i == FirstInvalid(ciphertext)
         IN  IF i # 0
             THEN [isValid |-> FALSE,
                   error |-> [text |-> "invalidChar", char |-> ciphertext[i],
                              position |-> i - 1]]
             ELSE [isValid |-> TRUE, error |-> [text |-> "null"]]

\* OI1Decoder.validateCiphertext, for a string argument; the error text is
\* kept as its parts: the character and its position (i + 1 in the source,
\* whose index i starts at 0)
validateCiphertext(ciphertext) ==
    IF ciphertext = <<>>
    THEN [isValid |-> FALSE, error |-> [text |-> "empty"]]
    ELSE LET i == FirstInvalid(ciphertext)
         IN  IF i # 0
             THEN [isValid |-> FALSE,
                   error |-> [text |-> "invalidChar", char |-> ciphertext[i],
                              position |-> i]]
             ELSE [isValid |-> TRUE, error |-> [text |-> "null"]]

\* step 2 of _decodeCipher: the bytes of a binary string, an incomplete
\* trailing byte ignored
RECURSIVE BinaryToBytes(_)
BinaryToBytes(binaryString) ==
    IF Len(binaryString) < 8 THEN <<>>
    ELSE <<ParseBinary(SubSeq(binaryString, 1, 8))>> \o
         BinaryToBytes(SubSeq(binaryString, 9, Len(binaryString)))

\* the bytes _decodeCipher recovers from a symbol string
CipherBytes(ciphertext) == BinaryToBytes(CharsToBinary(ciphertext))

\* _decodeCipher with a TextDecoder that is not fatal: ill-formed bytes come
\* out as U+FFFD instead of throwing
decodeCipher_lenient(ciphertext) ==
    LET bytes == CipherBytes(ciphertext)
        decoded == TextDecoderDecode(bytes)
    IN  IF decoded.ok THEN [ok |-> TRUE, text |-> decoded.text, bytes |-> bytes]
        ELSE [ok |-> TRUE, text |-> <<65533>>, bytes |-> bytes]

\* OI1Decoder._decodeCipher: the text, or the UTF-8 failure it throws
decodeCipher(ciphertext) ==
    LET bytes == CipherBytes(ciphertext)
        decoded == TextDecoderDecode(bytes)
    IN  IF decoded.ok THEN [ok |-> TRUE, text |-> decoded.text, bytes |-> bytes]
        ELSE [ok |-> FALSE, text |-> <<>>, bytes |-> bytes]

\* _decodeWithCRC with the mismatch reported in the result instead of thrown
decodeWithCRC_soft(ciphertext, formatInfo) ==
    LET mainCipher == SubSeq(ciphertext, 1, formatInfo.mainCipherLength)
        crcString == SubSeq(ciphertext, Len(ciphertext) - 15, Len(ciphertext))
        expectedCRC == fromOI1String(crcString)
        plain == decodeCipher(mainCipher)
        actualCRC == calculate(TextEncoderEncode(plain.text))
    IN  IF ~plain.ok
        THEN [status |-> "error", kind |-> "DecodingError", bytes |-> plain.bytes]
        ELSE [status |-> "ok", plaintext |-> plain.text,
              crcVerified |-> (actualCRC = expectedCRC), formatVersion |-> "v2"]

\* OI1Decoder._decodeWithCRC: a result, or the error it throws
decodeWithCRC(ciphertext, formatInfo) ==
    LET mainCipher == SubSeq(ciphertext, 1, formatInfo.mainCipherLength)
        crcString == SubSeq(ciphertext, Len(ciphertext) - 15, Len(ciphertext))
        expectedCRC == fromOI1String(crcString)
        plain == decodeCipher(mainCipher)
        bytes == TextEncoderEncode(plain.text)
        actualCRC == calculate(bytes)
        crcVerified == (actualCRC = expectedCRC)
    IN  IF ~plain.ok
        THEN [status |-> "error", kind |-> "DecodingError", bytes |-> plain.bytes]
        ELSE IF ~crcVerified
        THEN [status |-> "error", kind |-> "IntegrityError",
              expected |-> expectedCRC, actual |-> actualCRC]
        ELSE [status |-> "ok", plaintext |-> plain.text, crcVerified |-> TRUE,
              formatVersion |-> "v2"]

\* _decodeWithoutCRC reporting the checksum as verified
decodeWithoutCRC_verified(ciphertext, formatInfo) ==
    LET plain == decodeCipher(ciphertext)
    IN  IF ~plain.ok
        THEN [status |-> "error", kind |-> "DecodingError", bytes |-> plain.bytes]
        ELSE [status |-> "ok", plaintext |-> plain.text, crcVerified |-> TRUE,
              formatVersion |-> "v1"]

\* OI1Decoder._decodeWithoutCRC
decodeWithoutCRC(ciphertext, formatInfo) ==
    LET plain == decodeCipher(ciphertext)
    IN  IF ~plain.ok
        THEN [status |-> "error", kind |-> "DecodingError", bytes |-> plain.bytes]
        ELSE [status |-> "ok", plaintext |-> plain.text, crcVerified |-> FALSE,
              formatVersion |-> "v1"]

\* decode with the alphabet validated before the format is detected
decode_validateFirst(ciphertext) ==
    IF ciphertext = <<>>
    THEN [status |-> "ok", plaintext |-> <<>>, crcVerified |-> FALSE,
          formatVersion |-> "empty"]
    ELSE LET formatInfo == detectFormat(ciphertext)
             validation == validateCiphertext(ciphertext)
         IN  IF ~validation.isValid
             THEN [status |-> "error", kind |-> "ValidationError",
                   char |-> validation.error.char,
                   position |-> validation.error.position]
             ELSE IF ~formatInfo.isValid
             THEN [status |-> "error", kind |-> "FormatError"]
             ELSE IF formatInfo.version = "v2"
             THEN decodeWithCRC(ciphertext, formatInfo)
             ELSE decodeWithoutCRC(ciphertext, formatInfo)

\* decode without the early return for the empty string
decode_emptyIsError(ciphertext) ==
    LET formatInfo == detectFormat(ciphertext)
        validation == validateCiphertext(ciphertext)
    IN  IF ~formatInfo.isValid
        THEN [status |-> "error", kind |-> "FormatError"]
        ELSE IF ~validation.isValid
        THEN [status |-> "error", kind |-> "ValidationError",
              char |-> validation.error.char,
              position |-> validation.error.position]
        ELSE IF formatInfo.version = "v2"
        THEN decodeWithCRC(ciphertext, formatInfo)
        ELSE decodeWithoutCRC(ciphertext, formatInfo)

\* OI1Decoder.decode, for a string argument: the result it returns, or the
\* error it throws
decode(ciphertext) ==
    IF ciphertext = <<>>
    THEN [status |-> "ok", plaintext |-> <<>>, crcVerified |-> FALSE,
          formatVersion |-> "empty"]
    ELSE LET formatInfo == detectFormat(ciphertext)
             validation == validateCiphertext(ciphertext)
         IN  IF ~formatInfo.isValid
             THEN [status |-> "error", kind |-> "FormatError"]
             ELSE IF ~validation.isValid
             THEN [status |-> "error", kind |-> "ValidationError",
                   char |-> validation.error.char,
                   position |-> validation.error.position]
             ELSE IF formatInfo.version = "v2"
             THEN decodeWithCRC(ciphertext, formatInfo)
             ELSE decodeWithoutCRC(ciphertext, formatInfo)

\* OI1Encoder.encode: the table of this.crc32 when the call returns.
\* The empty plaintext returns before calculate is called.
tableAfterEncode(plaintext) ==
    IF plaintext = <<>> THEN table
    ELSE tableAfterCalculate(TextEncoderEncode(plaintext))

\* OI1Decoder.decode: the table of this.crc32 when the call returns or
\* throws. calculate is called by _decodeWithCRC alone, once _decodeCipher
\* has returned a text.
tableAfterDecode(ciphertext) ==
    IF ciphertext = <<>> THEN table
    ELSE LET formatInfo == detectFormat(ciphertext)
             validation == validateCiphertext(ciphertext)
         IN  IF ~formatInfo.isValid \/ ~validation.isValid
                \/ formatInfo.version # "v2"
             THEN table
             ELSE LET plain == decodeCipher(
                          SubSeq(ciphertext, 1, formatInfo.mainCipherLength))
                  IN  IF ~plain.ok THEN table
                      ELSE tableAfterCalculate(TextEncoderEncode(plain.text))

\* ---------------------------------------------------------------- OI1Demo
\* A trace is the sequence of steps a generator returns. A step keeps the
\* fields step, input, output and technical; name stands for the title and
\* description (translation keys). Text assembled from values by template
\* strings is kept as the record or tuple of those values.

\* the number of bytes after bytes[i] that continue a sequence of n
\* continuation bytes
Utf8GoodPrefix(bytes, i, n) ==
    LET good == {m \in 0..n :
                    /\ i + m <= Len(bytes)
                    /\ m >= 1 => /\ bytes[i + 1] >= Utf8Lower(bytes[i])
                                 /\ bytes[i + 1] <= Utf8Upper(bytes[i])
                    /\ \A k \in 2..m : bytes[i + k] >= 128 /\ bytes[i + k] <= 191}
    IN  CHOOSE m \in good : \A k \in good : k <= m

\* the UTF-8 decoder without fatal, from bytes[i]: every ill-formed
\* sequence yields U+FFFD, and the byte that ended it is read again
RECURSIVE Utf8DecodeReplacing(_, _)
Utf8DecodeReplacing(bytes, i) ==
    IF i > Len(bytes) THEN <<>>
    ELSE LET n == Utf8Needed(bytes[i])
         IN  IF n < 0 THEN <<65533>> \o Utf8DecodeReplacing(bytes, i + 1)
             ELSE LET m == Utf8GoodPrefix(bytes, i, n)
                  IN  IF m = n
                      THEN <<Utf8CodePoint(bytes, i, n)>> \o
                           Utf8DecodeReplacing(bytes, i + n + 1)
                      ELSE <<65533>> \o Utf8DecodeReplacing(bytes, i + m + 1)

\* new TextDecoder('utf-8').decode(bytes): never fails, and a leading
\* U+FEFF is removed from the output (ignoreBOM is false)
TextDecoderDecodeReplacing(bytes) ==
    LET codePoints == Utf8DecodeReplacing(bytes, 1)
    IN  IF codePoints # <<>> /\ Head(codePoints) = 65279
        THEN Utf16OfCodePoints(Tail(codePoints))
        ELSE Utf16OfCodePoints(codePoints)

\* the 8-bit strings of the bytes (binaryParts of step 3)
DemoBinaryParts(bytes) == [k \in 1..Len(bytes) |-> ToBinary(bytes[k], 8)]

\* the 2-character groups of a binary string (step 4); the last group of
\* a string of odd length has one character
DemoGroups(binaryString) ==
    [k \in 1..((Len(binaryString) + 1) \div 2) |->
        SubSeq(binaryString, 2 * k - 1,
               IF 2 * k <= Len(binaryString) THEN 2 * k ELSE 2 * k - 1)]

\* BINARY_TO_CHAR[group] || '?'
DemoCharOf(group) ==
    IF group \in DOMAIN BINARY_TO_CHAR THEN BINARY_TO_CHAR[group] ELSE "?"

\* the main cipher of step 5 with every group shown as '?'
DemoMainCipher_unmapped(groups) == [k \in 1..Len(groups) |-> "?"]

\* groups.map(g => BINARY_TO_CHAR[g] || '?').join('')
DemoMainCipher(groups) == [k \in 1..Len(groups) |-> DemoCharOf(groups[k])]

\* OI1Demo.generateEncodingDemo, for a string argument. Nothing in the try
\* block throws for a string, so the catch block returns nothing here.
generateEncodingDemo(text) ==
    IF text = <<>> THEN <<>>
    ELSE LET bytes == TextEncoderEncode(text)
             crc32Value == calculate(bytes)
             crcString == toOI1String(crc32Value)
             binaryParts == DemoBinaryParts(bytes)
             binaryString == BytesToBinary(bytes)
             groups == DemoGroups(binaryString)
             chars == [k \in 1..Len(groups) |-> <<groups[k], DemoCharOf(groups[k])>>]
             mainCipher == DemoMainCipher(groups)
             finalCipher == mainCipher \o crcString
         IN  << [step |-> 1, name |-> "encoding.step1", input |-> text,
                 output |-> bytes, technical |-> bytes],
                [step |-> 2, name |-> "encoding.step2", input |-> bytes,
                 output |-> crc32Value, technical |-> crcString],
                [step |-> 3, name |-> "encoding.step3", input |-> bytes,
                 output |-> binaryParts,
                 technical |-> [binaryString |-> binaryString,
                                length |-> Len(binaryString)]],
                [step |-> 4, name |-> "encoding.step4", input |-> binaryString,
                 output |-> groups, technical |-> Len(groups)],
                [step |-> 5, name |-> "encoding.step5", input |-> groups,
                 output |-> chars,
                 technical |-> [mainCipher |-> mainCipher,
                                length |-> Len(mainCipher)]],
                [step |-> 6, name |-> "encoding.step6",
                 input |-> [mainCipher |-> mainCipher, crcString |-> crcString],
                 output |-> finalCipher,
                 technical |-> [finalCipher |-> finalCipher,
                                length |-> Len(finalCipher),
                                mainLength |-> Len(mainCipher)]] >>

\* the single step returned when validation fails
DemoValidationFailed(ciphertext, validation) ==
    [step |-> 0, name |-> "validation.invalid", input |-> ciphertext,
     output |-> validation.error, technical |-> <<>>]

\* the single step returned by the catch block
DemoError(input, message) ==
    [step |-> 0, name |-> "errors.error", input |-> input,
     output |-> message, technical |-> <<>>]

\* the bytes of step 4 with the 8-bit string of each
DemoByteGroups(binaryString) ==
    [k \in 1..(Len(binaryString) \div 8) |->
        <<SubSeq(binaryString, 8 * k - 7, 8 * k),
          ParseBinary(SubSeq(binaryString, 8 * k - 7, 8 * k))>>]

\* the steps of generateDecodingDemo numbered as for v2 whatever the format
DemoDecodingSteps_unshifted(ciphertext) ==
    LET formatInfo == detectFormat(ciphertext)
        hasCRC == formatInfo.version = "v2" /\ formatInfo.hasCRC
        mainCipher == IF hasCRC
                      THEN SubSeq(ciphertext, 1, formatInfo.mainCipherLength)
                      ELSE ciphertext
        crcString == IF hasCRC
                     THEN SubSeq(ciphertext, Len(ciphertext) - 15, Len(ciphertext))
                     ELSE <<>>
        expectedCRC == fromOI1String(crcString)
        mappings == [k \in 1..Len(mainCipher) |->
                        <<mainCipher[k], CHAR_TO_BINARY[mainCipher[k]]>>]
        binaryString == CharsToBinary(mainCipher)
        byteGroups == DemoByteGroups(binaryString)
        bytes == [k \in 1..Len(byteGroups) |-> byteGroups[k][2]]
        plaintext_ == TextDecoderDecodeReplacing(bytes)
        actualCRC == calculate(TextEncoderEncode(plaintext_))
        isVerified == actualCRC = expectedCRC
        step1 == [step |-> 1, name |-> "decoding.step1",
                  input |-> Len(ciphertext),
                  output |-> [version |-> formatInfo.version,
                              hasCRC |-> formatInfo.hasCRC],
                  technical |-> IF formatInfo.isValid
                                THEN [mainCipherLength |-> formatInfo.mainCipherLength,
                                      crcLength |-> formatInfo.crcLength]
                                ELSE [mainCipherLength |-> "undefined",
                                      crcLength |-> "undefined"]]
        step2 == [step |-> 2, name |-> "decoding.step2", input |-> ciphertext,
                  output |-> [mainCipher |-> mainCipher, crcString |-> crcString],
                  technical |-> expectedCRC]
        step3 == [step |-> 3,
                  name |-> "decoding.step3", input |-> mainCipher,
                  output |-> mappings,
                  technical |-> [binaryString |-> binaryString,
                                 length |-> Len(binaryString)]]
        step4 == [step |-> 4,
                  name |-> "decoding.step4", input |-> binaryString,
                  output |-> byteGroups, technical |-> bytes]
        step5 == [step |-> 5,
                  name |-> "decoding.step5", input |-> bytes,
                  output |-> plaintext_, technical |-> Len(plaintext_)]
        step6 == [step |-> 6, name |-> "decoding.step6",
                  input |-> [expectedCRC |-> expectedCRC, actualCRC |-> actualCRC],
                  output |-> IF isVerified THEN "verified" ELSE "failed",
                  technical |-> IF isVerified THEN "verified" ELSE "failed"]
        legacyNote == [step |-> 5, name |-> "decoding.legacyNote",
                       input |-> "legacy", output |-> "noIntegrityProtection",
                       technical |-> "v1"]
    IN  <<step1>> \o (IF hasCRC THEN <<step2>> ELSE <<>>) \o
        <<step3, step4, step5>> \o
        (IF hasCRC THEN <<step6>>
         ELSE IF formatInfo.version = "v1" THEN <<legacyNote>>
         ELSE <<>>)

\* the steps of generateDecodingDemo for a ciphertext that passed
\* validation
DemoDecodingSteps(ciphertext) ==
    LET formatInfo == detectFormat(ciphertext)
        hasCRC == formatInfo.version = "v2" /\ formatInfo.hasCRC
        mainCipher == IF hasCRC
                      THEN SubSeq(ciphertext, 1, formatInfo.mainCipherLength)
                      ELSE ciphertext
        crcString == IF hasCRC
                     THEN SubSeq(ciphertext, Len(ciphertext) - 15, Len(ciphertext))
                     ELSE <<>>
        expectedCRC == fromOI1String(crcString)
        mappings == [k \in 1..Len(mainCipher) |->
                        <<mainCipher[k], CHAR_TO_BINARY[mainCipher[k]]>>]
        binaryString == CharsToBinary(mainCipher)
        byteGroups == DemoByteGroups(binaryString)
        bytes == [k \in 1..Len(byteGroups) |-> byteGroups[k][2]]
        plaintext_ == TextDecoderDecodeReplacing(bytes)
        actualCRC == calculate(TextEncoderEncode(plaintext_))
        isVerified == actualCRC = expectedCRC
        step1 == [step |-> 1, name |-> "decoding.step1",
                  input |-> Len(ciphertext),
                  output |-> [version |-> formatInfo.version,
                              hasCRC |-> formatInfo.hasCRC],
                  technical |-> IF formatInfo.isValid
                                THEN [mainCipherLength |-> formatInfo.mainCipherLength,
                                      crcLength |-> formatInfo.crcLength]
                                ELSE [mainCipherLength |-> "undefined",
                                      crcLength |-> "undefined"]]
        step2 == [step |-> 2, name |-> "decoding.step2", input |-> ciphertext,
                  output |-> [mainCipher |-> mainCipher, crcString |-> crcString],
                  technical |-> expectedCRC]
        step3 == [step |-> IF formatInfo.hasCRC THEN 3 ELSE 2,
                  name |-> "decoding.step3", input |-> mainCipher,
                  output |-> mappings,
                  technical |-> [binaryString |-> binaryString,
                                 length |-> Len(binaryString)]]
        step4 == [step |-> IF formatInfo.hasCRC THEN 4 ELSE 3,
                  name |-> "decoding.step4", input |-> binaryString,
                  output |-> byteGroups, technical |-> bytes]
        step5 == [step |-> IF formatInfo.hasCRC THEN 5 ELSE 4,
                  name |-> "decoding.step5", input |-> bytes,
                  output |-> plaintext_, technical |-> Len(plaintext_)]
        step6 == [step |-> 6, name |-> "decoding.step6",
                  input |-> [expectedCRC |-> expectedCRC, actualCRC |-> actualCRC],
                  output |-> IF isVerified THEN "verified" ELSE "failed",
                  technical |-> IF isVerified THEN "verified" ELSE "failed"]
        legacyNote == [step |-> 5, name |-> "decoding.legacyNote",
                       input |-> "legacy", output |-> "noIntegrityProtection",
                       technical |-> "v1"]
    IN  <<step1>> \o (IF hasCRC THEN <<step2>> ELSE <<>>) \o
        <<step3, step4, step5>> \o
        (IF hasCRC THEN <<step6>>
         ELSE IF formatInfo.version = "v1" THEN <<legacyNote>>
         ELSE <<>>)

\* generateDecodingDemo with the validation failure numbered 1
generateDecodingDemo_failStepOne(ciphertext) ==
    IF ciphertext = <<>> THEN <<>>
    ELSE LET validation == validateCiphertext(ciphertext)
         IN  IF ~validation.isValid
             THEN <<[DemoValidationFailed(ciphertext, validation) EXCEPT !.step = 1]>>
             ELSE DemoDecodingSteps(ciphertext)

\* OI1Demo.generateDecodingDemo, for a string argument. After validation
\* the only calls of the try block that can throw are those of
\* fromOI1String, on a CRC block that is not 16 valid characters.
generateDecodingDemo(ciphertext) ==
    IF ciphertext = <<>> THEN <<>>
    ELSE LET validation == validateCiphertext(ciphertext)
             formatInfo == detectFormat(ciphertext)
             crcString == SubSeq(ciphertext, Len(ciphertext) - 15, Len(ciphertext))
         IN  IF ~validation.isValid
             THEN <<DemoValidationFailed(ciphertext, validation)>>
             ELSE IF /\ formatInfo.version = "v2"
                     /\ formatInfo.hasCRC
                     /\ (Len(crcString) # 16 \/ FirstInvalid(crcString) # 0)
             THEN <<DemoError(ciphertext, "fromOI1String")>>
             ELSE DemoDecodingSteps(ciphertext)

\* ---------------------------------------------------------- state machine
\* One use of the codec: an input is given (a plaintext to encode, a v1
\* ciphertext from an older encoder, or a hand-typed ciphertext), the
\* encoder output may have one symbol altered in transit, and one decoder
\* operation is applied to the ciphertext.

VARIABLES
    plaintext,   \* the string given to encode
    ciphertext,  \* the ciphertext at hand
    origin,      \* "plain", "encoded", "flipped", "v1" or "typed"
    flipPos,     \* the position altered by FlipSymbol (0: none)
    op,          \* the decoder operation applied ("none": not yet)
    result,      \* what that operation returned or threw
    history,     \* the calls made on the shared instances, in order
    ui,          \* the page of OI1App: fields, counters, buttons
    watch        \* one clipboard watcher started by onClipboardChange

vars ==
    <<plaintext, ciphertext, origin, flipPos, op, result, table, history,
      ui, watch>>

\* the page after OI1App.init: initElements, then applyInitialState on
\* empty fields (every counter 0, every button disabled by
\* updateButtonStates)
UiInitial ==
    [plaintext |-> <<>>, ciphertext |-> <<>>,
     cipherInput |-> <<>>, plaintextOutput |-> <<>>,
     plaintextCount |-> 0, ciphertextCount |-> 0,
     cipherInputCount |-> 0, plaintextOutputCount |-> 0,
     encodeBtnDisabled |-> TRUE, decodeBtnDisabled |-> TRUE,
     copyCipherBtnDisabled |-> TRUE, copyPlainBtnDisabled |-> TRUE,
     validationStatus |-> "none",
     activeElement |-> "body",
     toast |-> "none", errorMessage |-> "none",
     isModernAPI |-> TRUE,
     pastes |-> 0, copies |-> 0,
     last |-> "init"]

\* the locals of onClipboardChange right after it returned: monitor() has
\* run up to its await, so the first clipboard read is in flight
WatchInitial ==
    [lastContent |-> <<>>, isMonitoring |-> TRUE,
     pc |-> "reading", stopCalled |-> FALSE,
     reads |-> 1, delivered |-> <<>>, callbackAfterStop |-> FALSE]

NoResult == [status |-> "none"]

\* the v1 ciphertext of a byte sequence: the main cipher alone
LegacyCipher(bytes) == binaryToChars(BytesToBinary(bytes))

\* the ASCII bytes of "123456789", the check input of CRC-32
CheckBytes == <<49, 50, 51, 52, 53, 54, 55, 56, 57>>

LegacyByteSeqs ==
    {TextEncoderEncode(s) : s \in Plaintexts \ {<<>>}} \cup RawByteSeqs
        \cup {CheckBytes}

Init ==
    /\ table = generateTable
    /\ history = <<>>
    /\ ui = UiInitial
    /\ watch = WatchInitial
    /\ flipPos = 0
    /\ op = "none"
    /\ result = NoResult
    /\ \/ /\ plaintext \in Plaintexts
          /\ ciphertext = <<>>
          /\ origin = "plain"
       \/ /\ plaintext = <<>>
          /\ ciphertext \in {LegacyCipher(b) : b \in LegacyByteSeqs}
          /\ origin = "v1"
       \/ /\ plaintext = <<>>
          /\ ciphertext \in RawInputs
          /\ origin = "typed"

\* OI1Encoder.encode applied to the plaintext
Encode ==
    /\ origin = "plain"
    /\ ciphertext' = encode(plaintext)
    /\ table' = tableAfterEncode(plaintext)
    /\ origin' = "encoded"
    /\ UNCHANGED <<plaintext, flipPos, op, result, history, ui, watch>>

\* one symbol of an encoder output is replaced by a different symbol
FlipSymbol(p, sym) ==
    /\ origin = "encoded"
    /\ op = "none"
    /\ p \in 1..Len(ciphertext)
    /\ sym # ciphertext[p]
    /\ ciphertext' = [ciphertext EXCEPT ![p] = sym]
    /\ origin' = "flipped"
    /\ flipPos' = p
    /\ UNCHANGED <<plaintext, op, result, table, history,
                   ui, watch>>

\* OI1Decoder.decode applied to the ciphertext
Decode ==
    /\ origin # "plain"
    /\ op = "none"
    /\ op' = "decode"
    /\ result' = decode(ciphertext)
    /\ table' = tableAfterDecode(ciphertext)
    /\ UNCHANGED <<plaintext, ciphertext, origin, flipPos, history,
                   ui, watch>>

\* OI1Encoder.detectFormat applied to the ciphertext
DetectFormat ==
    /\ origin # "plain"
    /\ op = "none"
    /\ op' = "detectFormat"
    /\ result' = detectFormat(ciphertext)
    /\ UNCHANGED <<plaintext, ciphertext, origin, flipPos, table, history,
                   ui, watch>>

\* OI1Decoder.validateCiphertext applied to the ciphertext
Validate ==
    /\ origin # "plain"
    /\ op = "none"
    /\ op' = "validateCiphertext"
    /\ result' = validateCiphertext(ciphertext)
    /\ UNCHANGED <<plaintext, ciphertext, origin, flipPos, table, history,
                   ui, watch>>

\* CRC32.calculate applied to the bytes the ciphertext carries, and
\* CRC32.toOI1String applied to the value (steps 2 of encode, on bytes that
\* need not be UTF-8)
Calculate ==
    /\ origin \in {"v1", "typed"}
    /\ op = "none"
    /\ FirstInvalid(ciphertext) = 0
    /\ op' = "calculate"
    /\ result' = LET crc32Value == calculate(CipherBytes(ciphertext))
                 IN  [bytes |-> CipherBytes(ciphertext),
                      crc32Value |-> crc32Value,
                      crcString |-> toOI1String(crc32Value)]
    /\ table' = tableAfterCalculate(CipherBytes(ciphertext))
    /\ UNCHANGED <<plaintext, ciphertext, origin, flipPos, history,
                   ui, watch>>

\* CRC32.fromOI1String applied to the last 16 symbols of a v2 ciphertext
\* that passed validation (the first steps of _decodeWithCRC)
ParseChecksum ==
    /\ origin # "plain"
    /\ op = "none"
    /\ detectFormat(ciphertext).version = "v2"
    /\ validateCiphertext(ciphertext).isValid
    /\ op' = "fromOI1String"
    /\ result' = LET crcString ==
                         SubSeq(ciphertext, Len(ciphertext) - 15, Len(ciphertext))
                 IN  [crcString |-> crcString,
                      expectedCRC |-> fromOI1String(crcString)]
    /\ UNCHANGED <<plaintext, ciphertext, origin, flipPos, table, history,
                   ui, watch>>

\* decode up to steps 1 and 2 of _decodeCipher: the format is recognised,
\* the characters are valid, and the main cipher (the whole ciphertext for
\* v1, the ciphertext without its last 16 symbols for v2) is turned into
\* bits and bytes
DecodeCipher ==
    /\ origin # "plain"
    /\ op = "none"
    /\ ciphertext # <<>>
    /\ detectFormat(ciphertext).isValid
    /\ validateCiphertext(ciphertext).isValid
    /\ op' = "decodeCipher"
    /\ result' = LET formatInfo == detectFormat(ciphertext)
                     mainCipher == IF formatInfo.version = "v2"
                                   THEN SubSeq(ciphertext, 1,
                                               formatInfo.mainCipherLength)
                                   ELSE ciphertext
                     binaryString == CharsToBinary(mainCipher)
                 IN  [mainCipherLength |-> formatInfo.mainCipherLength,
                      mainCipher |-> mainCipher,
                      binaryString |-> binaryString,
                      bytes |-> BinaryToBytes(binaryString),
                      ignoredBits |-> Len(binaryString) % 8]
    /\ UNCHANGED <<plaintext, ciphertext, origin, flipPos, table, history,
                   ui, watch>>

\* OI1Demo.generateEncodingDemo applied to the plaintext
EncodingDemo ==
    /\ origin = "plain"
    /\ op = "none"
    /\ op' = "encodingDemo"
    /\ result' = [steps |-> generateEncodingDemo(plaintext)]
    /\ UNCHANGED <<plaintext, ciphertext, origin, flipPos, table, history,
                   ui, watch>>

\* OI1Demo.generateDecodingDemo applied to the ciphertext
DecodingDemo ==
    /\ origin # "plain"
    /\ op = "none"
    /\ op' = "decodingDemo"
    /\ result' = [steps |-> generateDecodingDemo(ciphertext)]
    /\ UNCHANGED <<plaintext, ciphertext, origin, flipPos, table, history,
                   ui, watch>>

Next ==
    \/ Encode
    \/ \E p \in 1..Len(ciphertext), sym \in VALID_CIPHER_CHARS : FlipSymbol(p, sym)
    \/ Decode
    \/ DetectFormat
    \/ Validate
    \/ Calculate
    \/ ParseChecksum
    \/ DecodeCipher
    \/ EncodingDemo
    \/ DecodingDemo

Spec == Init /\ [][Next]_vars

\* ------------------------------------------------------------ properties

\* the state after decode was applied to the untouched output of encode
RoundTrip == origin = "encoded" /\ op = "decode"

\* every character is one of the four symbols
OverAlphabet(c) == \A i \in 1..Len(c) : c[i] \in {"O", "0", "I", "l"}

\* the v2 and v1 length shapes
ShapeV2(c) == Len(c) > 16 /\ (Len(c) - 16) % 4 = 0

ShapeV1(c) == ~ShapeV2(c) /\ Len(c) > 0 /\ Len(c) % 4 = 0

\* the bytes carried by the main-cipher part of a ciphertext of either shape
MainBytes(c) ==
    IF ShapeV2(c) THEN CipherBytes(SubSeq(c, 1, Len(c) - 16)) ELSE CipherBytes(c)

\* the bytes are well-formed UTF-8
WellFormed(bytes) == Utf8Decode(bytes, 1).ok

\* the string whose UTF-8 encoding is a well-formed byte sequence
TextOf(bytes) == Utf16OfCodePoints(Utf8Decode(bytes, 1).codePoints)

\* no surrogate stands alone: the string has a UTF-8 encoding of its own
RECURSIVE PairedSurrogates(_)
PairedSurrogates(s) ==
    IF s = <<>> THEN TRUE
    ELSE IF IsHighSurrogate(s[1])
         THEN Len(s) >= 2 /\ IsLowSurrogate(s[2]) /\ PairedSurrogates(SubSeq(s, 3, Len(s)))
    ELSE ~IsLowSurrogate(s[1]) /\ PairedSurrogates(Tail(s))

\* C1: for every string s, decode(encode(s)) returns a result whose
\* plaintext is s.  Stated for the strings whose surrogates come in pairs
\* (a lone surrogate has no UTF-8 encoding to travel in), the empty string
\* included.
C1_RoundTripPlaintext ==
    (RoundTrip /\ PairedSurrogates(plaintext)) =>
        result.status = "ok" /\ result.plaintext = plaintext

\* C2: for every string s, decode(encode(s)) returns a result that reports
\* the checksum as verified.  Stated for the non-empty strings, for which
\* encode produces a checksum block.
C2_RoundTripVerified ==
    (RoundTrip /\ plaintext # <<>>) =>
        result.status = "ok" /\ result.crcVerified = TRUE

\* the state after decode was applied to an encoder output with one symbol
\* of its main cipher replaced
FlippedMainDecoded ==
    /\ origin = "flipped"
    /\ flipPos <= Len(ciphertext) - 16
    /\ op = "decode"

\* C3 as stated: replacing one main-cipher symbol of an encoder output makes
\* decode fail with an IntegrityError and with no other kind of error.
C3_FlipIntegrityOnly ==
    FlippedMainDecoded => result.status = "error" /\ result.kind = "IntegrityError"

\* C3 as amended: replacing one main-cipher symbol of an encoder output
\* makes decode fail, with a DecodingError when the altered bytes are not
\* well-formed UTF-8 and with an IntegrityError otherwise; no result is
\* returned.
C3_FlipFails ==
    FlippedMainDecoded =>
        /\ result.status = "error"
        /\ result.kind = IF WellFormed(MainBytes(ciphertext))
                         THEN "IntegrityError" ELSE "DecodingError"

C3_Witness ==
    /\ FlippedMainDecoded
    /\ result.status = "error"
    /\ result.kind = "DecodingError"

\* C4: every v1 ciphertext (length a positive multiple of 4, well-formed
\* UTF-8 bytes, no checksum suffix) decodes successfully to the encoded
\* plaintext with the checksum reported as not verified.
C4_LegacyDecodes ==
    (origin = "v1" /\ op = "decode" /\ WellFormed(CipherBytes(ciphertext))) =>
        /\ result.status = "ok"
        /\ result.plaintext = TextOf(CipherBytes(ciphertext))
        /\ result.crcVerified = FALSE

\* C5: detectFormat reports v2 exactly for lengths above 16 that are 16 plus
\* a multiple of 4, otherwise v1 exactly for positive multiples of 4,
\* otherwise unknown, with hasCRC, mainCipherLength and crcLength to match.
C5_DetectFormat ==
    op = "detectFormat" =>
        LET n == Len(ciphertext)
        IN  IF n > 16 /\ (n - 16) % 4 = 0
            THEN /\ result.version = "v2"
                 /\ result.hasCRC = TRUE
                 /\ result.mainCipherLength = n - 16
                 /\ result.crcLength = 16
            ELSE IF n > 0 /\ n % 4 = 0
            THEN /\ result.version = "v1"
                 /\ result.hasCRC = FALSE
                 /\ result.mainCipherLength = n
                 /\ result.crcLength = 0
            ELSE result.version = "unknown"

C5_Witness ==
    /\ op = "detectFormat"
    /\ Len(ciphertext) = 20
    /\ result.version = "v2"
    /\ result.mainCipherLength = 4

\* C6 as stated: for every string s with n UTF-8 bytes, encode(s) has
\* 4n + 16 symbols.
C6_LengthLaw ==
    origin = "encoded" =>
        Len(ciphertext) = 4 * Len(TextEncoderEncode(plaintext)) + 16

\* C6 as amended: for every non-empty string s with n UTF-8 bytes, encode(s)
\* has 4n + 16 symbols; encode of the empty string is the empty string.
C6_LengthLawNonEmpty ==
    origin = "encoded" =>
        IF plaintext = <<>> THEN ciphertext = <<>>
        ELSE Len(ciphertext) = 4 * Len(TextEncoderEncode(plaintext)) + 16

C6_Witness ==
    /\ origin = "encoded"
    /\ Len(plaintext) = 2
    /\ Len(ciphertext) = 4 * 4 + 16

\* C7: every character of encode(s) is one of O, 0, I, l.
C7_AlphabetClosure == origin = "encoded" => OverAlphabet(ciphertext)

C7_Witness ==
    /\ origin = "encoded"
    /\ Len(ciphertext) > 16
    /\ OverAlphabet(ciphertext)

\* C8: a v2-shaped ciphertext over the alphabet whose main cipher carries
\* well-formed UTF-8 bytes b is decoded to a result exactly when CRC32(b)
\* equals the value of its last 16 symbols, and fails with an IntegrityError
\* otherwise.
C8_ChecksumOverRecoveredBytes ==
    (/\ op = "decode"
     /\ ShapeV2(ciphertext)
     /\ OverAlphabet(ciphertext)
     /\ WellFormed(MainBytes(ciphertext))) =>
        LET expected ==
                fromOI1String(SubSeq(ciphertext, Len(ciphertext) - 15, Len(ciphertext)))
        IN  IF calculate(MainBytes(ciphertext)) = expected
            THEN result.status = "ok"
            ELSE result.status = "error" /\ result.kind = "IntegrityError"

\* C9: a ciphertext of v1 or v2 shape over the alphabet whose main-cipher
\* bytes are not well-formed UTF-8 makes decode fail with a DecodingError;
\* no plaintext is returned.
C9_StrictUtf8 ==
    (/\ op = "decode"
     /\ (ShapeV1(ciphertext) \/ ShapeV2(ciphertext))
     /\ OverAlphabet(ciphertext)
     /\ ~WellFormed(MainBytes(ciphertext))) =>
        result.status = "error" /\ result.kind = "DecodingError"

C9_Witness ==
    /\ op = "decode"
    /\ origin = "v1"
    /\ ShapeV1(ciphertext)
    /\ ~WellFormed(MainBytes(ciphertext))
    /\ result.status = "error"
    /\ result.kind = "DecodingError"

\* C10: decode checks the length shape before the alphabet: a non-empty
\* ciphertext of neither shape fails with a FormatError even when it holds
\* an illegal character, and a ciphertext of valid shape holding a character
\* outside the alphabet fails with a ValidationError naming the first such
\* character and its 1-based position.
C10_ShapeBeforeAlphabet ==
    op = "decode" =>
        /\ (ciphertext # <<>> /\ ~ShapeV1(ciphertext) /\ ~ShapeV2(ciphertext)) =>
               result.status = "error" /\ result.kind = "FormatError"
        /\ ((ShapeV1(ciphertext) \/ ShapeV2(ciphertext)) /\ ~OverAlphabet(ciphertext)) =>
               /\ result.status = "error"
               /\ result.kind = "ValidationError"
               /\ result.position \in 1..Len(ciphertext)
               /\ ciphertext[result.position] \notin {"O", "0", "I", "l"}
               /\ \A j \in 1..(result.position - 1) :
                      ciphertext[j] \in {"O", "0", "I", "l"}
               /\ result.char = ciphertext[result.position]

C10_Witness ==
    /\ op = "decode"
    /\ ~ShapeV1(ciphertext) /\ ~ShapeV2(ciphertext)
    /\ ~OverAlphabet(ciphertext)
    /\ result.status = "error"
    /\ result.kind = "FormatError"

\* C11: validateCiphertext always returns: isValid = false for the empty
\* string; for a non-empty string isValid = true exactly when every character
\* is one of O, 0, I, l, and otherwise isValid = false with an error naming
\* the first offending character and its 1-based position.
C11_ValidateCiphertext ==
    op = "validateCiphertext" =>
        /\ result.isValid \in BOOLEAN
        /\ ciphertext = <<>> => result.isValid = FALSE
        /\ ciphertext # <<>> => (result.isValid <=> OverAlphabet(ciphertext))
        /\ (ciphertext # <<>> /\ ~OverAlphabet(ciphertext)) =>
               /\ result.error.position \in 1..Len(ciphertext)
               /\ ciphertext[result.error.position] \notin {"O", "0", "I", "l"}
               /\ \A j \in 1..(result.error.position - 1) :
                      ciphertext[j] \in {"O", "0", "I", "l"}
               /\ result.error.char = ciphertext[result.error.position]

\* five characters with the only illegal one, an X, at position 5
C11_Witness ==
    /\ op = "validateCiphertext"
    /\ ciphertext = <<"O", "O", "O", "O", "X">>
    /\ result.isValid = FALSE
    /\ result.error.char = "X"
    /\ result.error.position = 5

\* the standard CRC-32, one bit at a time: reflected polynomial 0xEDB88320,
\* initial value 0xFFFFFFFF, final XOR 0xFFFFFFFF
RECURSIVE BitwiseRounds(_, _)
BitwiseRounds(reg, j) ==
    IF j = 0 THEN reg
    ELSE BitwiseRounds(IF reg[4] % 2 = 1
                       THEN XorWord(ShiftRight1(reg), <<237, 184, 131, 32>>)
                       ELSE ShiftRight1(reg), j - 1)

\* the register after bytes lo..hi; the range is halved and the register of
\* the first half is computed before the second half starts, which keeps the
\* evaluation shallow
RECURSIVE BitwiseFold(_, _, _, _)
BitwiseFold(reg, bytes, lo, hi) ==
    IF lo > hi THEN reg
    ELSE IF lo = hi THEN BitwiseRounds(XorWord(reg, <<0, 0, 0, bytes[lo]>>), 8)
    ELSE LET mid == (lo + hi) \div 2
         IN  CHOOSE r \in {BitwiseFold(w, bytes, mid + 1, hi) :
                               w \in {BitwiseFold(reg, bytes, lo, mid)}} : TRUE

BitwiseCrc(bytes) ==
    XorWord(BitwiseFold(<<255, 255, 255, 255>>, bytes, 1, Len(bytes)),
            <<255, 255, 255, 255>>)

\* C12: for every byte sequence the table-driven calculate returns the
\* unsigned 32-bit value of the standard bit-by-bit CRC-32: 0xCBF43926 for
\* the ASCII bytes of "123456789", 0 for the empty sequence.
C12_StandardCrc32 ==
    op = "calculate" =>
        /\ \A k \in 1..4 : result.crc32Value[k] \in 0..255
        /\ result.crc32Value = BitwiseCrc(result.bytes)
        /\ result.bytes = CheckBytes => result.crc32Value = <<203, 244, 57, 38>>
        /\ result.bytes = <<>> => result.crc32Value = <<0, 0, 0, 0>>

C12_Witness ==
    /\ op = "calculate"
    /\ result.bytes = CheckBytes
    /\ result.crc32Value = <<203, 244, 57, 38>>


\* the symbol of a 2-bit group given as a number 0..3
SymbolOfGroup(g) ==
    CASE g = 0 -> "O" [] g = 1 -> "0" [] g = 2 -> "I" [] g = 3 -> "l"

\* bits 7-2j and 6-2j of a byte, j = 0..3, as a number 0..3
GroupOfByte(byte, j) ==
    CASE j = 0 -> (byte \div 64) % 4
      [] j = 1 -> (byte \div 16) % 4
      [] j = 2 -> (byte \div 4) % 4
      [] j = 3 -> byte % 4

\* the symbols of a byte sequence, four per byte, most significant group first
SymbolsOfBytes(b) ==
    [i \in 1..(4 * Len(b)) |->
        SymbolOfGroup(GroupOfByte(b[((i - 1) \div 4) + 1], (i - 1) % 4))]

\* C13: for a non-empty string with UTF-8 bytes b[0..n-1], symbol 4k+j of
\* encode(s) is the symbol of bits 7-2j and 6-2j of b[k], the last 16 symbols
\* are the symbol form of CRC32(b), and encode("Hi") starts with 0OIO0II0.
C13_EncodeStructure ==
    (origin = "encoded" /\ plaintext # <<>>) =>
        LET b == TextEncoderEncode(plaintext)
            n == Len(b)
            crc == BitwiseCrc(b)
        IN  /\ Len(ciphertext) = 4 * n + 16
            /\ SubSeq(ciphertext, 1, 4 * n) = SymbolsOfBytes(b)
            /\ SubSeq(ciphertext, 4 * n + 1, 4 * n + 16) =
                   SymbolsOfBytes(<<crc[1], crc[2], crc[3], crc[4]>>)
            /\ plaintext = <<72, 105>> =>
                   SubSeq(ciphertext, 1, 8) = <<"0", "O", "I", "O", "0", "I", "I", "0">>

C13_Witness ==
    /\ origin = "encoded"
    /\ plaintext = <<72, 105>>
    /\ Len(ciphertext) = 24
    /\ SubSeq(ciphertext, 1, 8) = <<"0", "O", "I", "O", "0", "I", "I", "0">>

\* the README's worked example: the ciphertext it prints for "Hi"
ReadmeHiCiphertext ==
    <<"0", "O", "I", "O", "0", "I", "I", "0",
      "O", "0", "l", "I", "O", "0", "I", "l",
      "0", "0", "I", "l", "O", "O", "I", "0">>

\* the ciphertext of "Hi": main cipher 0OIO0II0 followed by the symbol form
\* 0Ol0O00lOOlIOOlI of the CRC-32 value 0x4D170E0E of the bytes [72, 105]
HiCiphertext ==
    <<"0", "O", "I", "O", "0", "I", "I", "0",
      "0", "O", "l", "0", "O", "0", "0", "l",
      "O", "O", "l", "I", "O", "O", "l", "I">>

\* C14 as stated: encode("Hi") is the 24-symbol string
\* 0OIO0II0O0lIO0Il00IlOOI0 of the README's worked example.
C14_ReadmeHi ==
    (origin = "encoded" /\ plaintext = <<72, 105>>) =>
        ciphertext = ReadmeHiCiphertext

\* C14 amended: encode("Hi") is 0OIO0II0 followed by 0Ol0O00lOOlIOOlI, the
\* symbol form of the CRC-32 value 0x4D170E0E of the bytes [72, 105].
C14_HiCiphertext ==
    (origin = "encoded" /\ plaintext = <<72, 105>>) =>
        /\ ciphertext = HiCiphertext
        /\ BitwiseCrc(<<72, 105>>) = <<77, 23, 14, 14>>
        /\ SubSeq(ciphertext, 9, 24) = SymbolsOfBytes(<<77, 23, 14, 14>>)

C14_Witness ==
    /\ origin = "encoded"
    /\ plaintext = <<72, 105>>
    /\ ciphertext = HiCiphertext
    /\ ciphertext # ReadmeHiCiphertext

\* C15: decode("") raises no error and returns plaintext "", crcVerified =
\* false and formatVersion = "empty".
C15_DecodeEmpty ==
    (op = "decode" /\ ciphertext = <<>>) =>
        result = [status |-> "ok", plaintext |-> <<>>, crcVerified |-> FALSE,
                  formatVersion |-> "empty"]

C15_Witness ==
    /\ op = "decode"
    /\ origin = "typed"
    /\ ciphertext = <<>>
    /\ result.status = "ok"
    /\ result.formatVersion = "empty"

\* the four 2-bit groups
Groups == {<<"0", "0">>, <<"0", "1">>, <<"1", "0">>, <<"1", "1">>}

\* C16: the group-to-symbol and symbol-to-group tables are total, mutually
\* inverse bijections between {00,01,10,11} and {O,0,I,l} (00 and O, 01 and
\* 0, 10 and I, 11 and l), and the valid ciphertext characters are exactly
\* the symbols of those tables; every symbol the encoder writes maps to a
\* group and back to itself.
C16_TablesBijection ==
    /\ DOMAIN BINARY_TO_CHAR = Groups
    /\ DOMAIN CHAR_TO_BINARY = {"O", "0", "I", "l"}
    /\ {BINARY_TO_CHAR[g] : g \in Groups} = {"O", "0", "I", "l"}
    /\ {CHAR_TO_BINARY[s] : s \in {"O", "0", "I", "l"}} = Groups
    /\ \A g \in Groups : CHAR_TO_BINARY[BINARY_TO_CHAR[g]] = g
    /\ \A s \in {"O", "0", "I", "l"} : BINARY_TO_CHAR[CHAR_TO_BINARY[s]] = s
    /\ BINARY_TO_CHAR[<<"0", "0">>] = "O" /\ CHAR_TO_BINARY["O"] = <<"0", "0">>
    /\ BINARY_TO_CHAR[<<"0", "1">>] = "0" /\ CHAR_TO_BINARY["0"] = <<"0", "1">>
    /\ BINARY_TO_CHAR[<<"1", "0">>] = "I" /\ CHAR_TO_BINARY["I"] = <<"1", "0">>
    /\ BINARY_TO_CHAR[<<"1", "1">>] = "l" /\ CHAR_TO_BINARY["l"] = <<"1", "1">>
    /\ VALID_CIPHER_CHARS = {BINARY_TO_CHAR[g] : g \in DOMAIN BINARY_TO_CHAR}
    /\ VALID_CIPHER_CHARS = DOMAIN CHAR_TO_BINARY
    /\ origin = "encoded" =>
           \A i \in 1..Len(ciphertext) :
               /\ ciphertext[i] \in VALID_CIPHER_CHARS
               /\ BINARY_TO_CHAR[CHAR_TO_BINARY[ciphertext[i]]] = ciphertext[i]

\* an encoder output in which all four symbols occur, validated
C16_Witness ==
    /\ origin = "encoded"
    /\ op = "validateCiphertext"
    /\ {ciphertext[i] : i \in 1..Len(ciphertext)} = VALID_CIPHER_CHARS
    /\ result.isValid

\* C17: toOI1String of a 32-bit value is a 16-character string over
\* {O,0,I,l}, big-endian with the most significant 2-bit group first, and
\* fromOI1String takes it back to the value (also when bit 31 is set);
\* conversely toOI1String(fromOI1String(t)) = t for a 16-symbol string t.
C17_ChecksumSymbolsRoundTrip ==
    /\ op = "calculate" =>
           /\ Len(result.crcString) = 16
           /\ OverAlphabet(result.crcString)
           /\ result.crcString = SymbolsOfBytes(result.crc32Value)
           /\ fromOI1String(result.crcString) = result.crc32Value
    /\ op = "fromOI1String" =>
           /\ Len(result.crcString) = 16
           /\ \A k \in 1..4 : result.expectedCRC[k] \in 0..255
           /\ toOI1String(result.expectedCRC) = result.crcString

\* a checksum with bit 31 set, written as symbols and read back
C17_Witness ==
    /\ op = "calculate"
    /\ result.crc32Value[1] >= 128
    /\ result.crcString[1] \in {"I", "l"}
    /\ fromOI1String(result.crcString) = result.crc32Value

\* a trace: a finite list of steps
IsTrace(steps) ==
    /\ DOMAIN steps = 1..Len(steps)
    /\ \A k \in 1..Len(steps) :
           {"step", "input", "output"} \subseteq DOMAIN steps[k]

\* C19: the trace generators always return a trace; for a non-empty
\* ciphertext with a character outside {O,0,I,l} the trace is exactly one
\* step, numbered 0, whose output is the validation error (the first such
\* character and its position); a step numbered 0 is always the only step
\* of its trace.
C19_FailureTrace ==
    /\ op \in {"encodingDemo", "decodingDemo"} =>
           /\ IsTrace(result.steps)
           /\ (\E k \in 1..Len(result.steps) : result.steps[k].step = 0)
                  => Len(result.steps) = 1
    /\ (op = "decodingDemo" /\ ~OverAlphabet(ciphertext)) =>
           /\ Len(result.steps) = 1
           /\ result.steps[1].step = 0
           /\ result.steps[1].input = ciphertext
           /\ result.steps[1].output.text = "invalidChar"
           /\ result.steps[1].output.char \notin {"O", "0", "I", "l"}
           /\ ciphertext[result.steps[1].output.position] = result.steps[1].output.char
           /\ \A i \in 1..(result.steps[1].output.position - 1) :
                  ciphertext[i] \in {"O", "0", "I", "l"}
    /\ (op = "decodingDemo" /\ ciphertext # <<>> /\ OverAlphabet(ciphertext)) =>
           /\ Len(result.steps) >= 4
           /\ \A k \in 1..Len(result.steps) : result.steps[k].step >= 1
    /\ (op = "encodingDemo" /\ plaintext # <<>>) =>
           /\ Len(result.steps) = 6
           /\ \A k \in 1..Len(result.steps) : result.steps[k].step >= 1

\* the decoding trace of a ciphertext whose second character is illegal
C19_Witness ==
    /\ op = "decodingDemo"
    /\ Len(ciphertext) >= 2
    /\ ciphertext[1] = "O"
    /\ ciphertext[2] \notin {"O", "0", "I", "l"}
    /\ Len(result.steps) = 1
    /\ result.steps[1].step = 0
    /\ result.steps[1].output.position = 2

\* C20: for a non-empty string with n UTF-8 bytes the encoding trace has
\* six steps, the main cipher of its mapping step is the first 4n symbols
\* of encode(s), and the output of its last step is encode(s).
C20_EncodingTraceMirrorsEncode ==
    (op = "encodingDemo" /\ origin = "encoded" /\ plaintext # <<>>) =>
        LET n == Len(TextEncoderEncode(plaintext))
        IN  /\ Len(result.steps) = 6
            /\ [k \in 1..6 |-> result.steps[k].step] = <<1, 2, 3, 4, 5, 6>>
            /\ result.steps[5].technical.mainCipher = SubSeq(ciphertext, 1, 4 * n)
            /\ result.steps[5].technical.length = 4 * n
            /\ result.steps[6].output = ciphertext

\* the trace of "Hi" next to encode("Hi")
C20_Witness ==
    /\ op = "encodingDemo"
    /\ origin = "encoded"
    /\ plaintext = <<72, 105>>
    /\ Len(result.steps) = 6
    /\ result.steps[6].output = ciphertext
    /\ Len(ciphertext) = 24

\* ------------------------------------------------- shared instances
\* One encoder and one decoder are shared by two callers, which call
\* encode, decode, detectFormat and validateCiphertext in any order. The
\* methods are synchronous, so calls interleave as wholes. Every call is
\* recorded in history with its input and its outcome, and leaves in table
\* what its code leaves in this.table of the CRC32 instance it uses.

MaxCalls == 3

Callers == {1, 2}

SharedPlaintexts == {<<>>, <<72, 105>>}

SharedCiphertexts ==
    {HiCiphertext, [HiCiphertext EXCEPT ![1] = "I"],
     <<"0", "O", "I", "O">>, <<"O", "X">>}

SharedInit ==
    /\ table = generateTable
    /\ history = <<>>
    /\ ui = UiInitial
    /\ watch = WatchInitial
    /\ plaintext = <<>>
    /\ ciphertext = <<>>
    /\ origin = "shared"
    /\ flipPos = 0
    /\ op = "none"
    /\ result = NoResult

\* a call of encode on the shared encoder
SharedEncode(caller, input) ==
    /\ Len(history) < MaxCalls
    /\ history' = Append(history, [caller |-> caller, call |-> "encode",
                                    input |-> input, outcome |-> encode(input)])
    /\ table' = tableAfterEncode(input)
    /\ UNCHANGED <<plaintext, ciphertext, origin, flipPos, op, result,
                   ui, watch>>

\* a call of decode on the shared decoder
SharedDecode(caller, input) ==
    /\ Len(history) < MaxCalls
    /\ history' = Append(history, [caller |-> caller, call |-> "decode",
                                    input |-> input, outcome |-> decode(input)])
    /\ table' = tableAfterDecode(input)
    /\ UNCHANGED <<plaintext, ciphertext, origin, flipPos, op, result,
                   ui, watch>>

\* a call of detectFormat on the shared encoder
SharedDetectFormat(caller, input) ==
    /\ Len(history) < MaxCalls
    /\ history' = Append(history, [caller |-> caller, call |-> "detectFormat",
                                    input |-> input,
                                    outcome |-> detectFormat(input)])
    /\ UNCHANGED <<table, plaintext, ciphertext, origin, flipPos, op, result,
                   ui, watch>>

\* a call of validateCiphertext on the shared decoder
SharedValidate(caller, input) ==
    /\ Len(history) < MaxCalls
    /\ history' = Append(history, [caller |-> caller,
                                    call |-> "validateCiphertext",
                                    input |-> input,
                                    outcome |-> validateCiphertext(input)])
    /\ UNCHANGED <<table, plaintext, ciphertext, origin, flipPos, op, result,
                   ui, watch>>

SharedNext ==
    \/ \E caller \in Callers, input \in SharedPlaintexts :
           SharedEncode(caller, input)
    \/ \E caller \in Callers, input \in SharedCiphertexts :
           SharedDecode(caller, input)
    \/ \E caller \in Callers, input \in SharedCiphertexts :
           SharedDetectFormat(caller, input)
    \/ \E caller \in Callers, input \in SharedCiphertexts :
           SharedValidate(caller, input)

SharedSpec == SharedInit /\ [][SharedNext]_vars

\* C18: across any sequence of encode, decode, detectFormat and
\* validateCiphertext calls of two callers on the shared instances, the
\* lookup table stays the table built at construction, and two calls of the
\* same operation with the same input have the same outcome, whichever
\* calls came between them and whoever made them.
C18_SharedCallsIndependent ==
    /\ table = generateTable
    /\ \A i \in 1..Len(history) : \A j \in 1..Len(history) :
           (history[i].call = history[j].call /\
            history[i].input = history[j].input)
               => history[i].outcome = history[j].outcome

\* the same plaintext encoded by both callers around a failing decode
C18_Witness ==
    /\ Len(history) = 3
    /\ history[1].call = "encode" /\ history[1].caller = 1
    /\ history[1].input = <<72, 105>>
    /\ history[2].call = "decode" /\ history[2].caller = 2
    /\ history[2].outcome.status = "error"
    /\ history[3].call = "encode" /\ history[3].caller = 2
    /\ history[3].input = <<72, 105>>
    /\ history[3].outcome = history[1].outcome
    /\ history[3].outcome = HiCiphertext

\* the steps of a decoding trace that show the decoded text
Utf8Steps(steps) == {k \in 1..Len(steps) : steps[k].name = "decoding.step5"}

\* whether a decoding trace reports a failure: a step numbered 0, or a
\* checksum verification step whose outcome is failed
ReportsFailure(steps) ==
    \E k \in 1..Len(steps) :
        \/ steps[k].step = 0
        \/ steps[k].name = "decoding.step6" /\ steps[k].output = "failed"

\* C21: for a non-empty ciphertext the decoding trace agrees with decode:
\* when decode returns a result, the text of the trace's UTF-8 step is the
\* result's plaintext and no step reports a failure; when decode throws,
\* the trace reports a failure.
C21_TraceAgreesWithDecode ==
    (op = "decodingDemo" /\ ciphertext # <<>>) =>
        LET d == decode(ciphertext)
        IN  /\ d.status = "ok" =>
                   /\ ~ReportsFailure(result.steps)
                   /\ Utf8Steps(result.steps) # {}
                   /\ \A k \in Utf8Steps(result.steps) :
                          result.steps[k].output = d.plaintext
            /\ d.status = "error" => ReportsFailure(result.steps)

\* C23: every result decode returns has crcVerified = true exactly when its
\* formatVersion is "v2"; results of version "v1" or "empty" report
\* crcVerified = false.
C23_VerifiedIffV2 ==
    (op = "decode" /\ result.status = "ok") =>
        /\ result.formatVersion \in {"v2", "v1", "empty"}
        /\ result.crcVerified <=> result.formatVersion = "v2"
        /\ result.formatVersion = "v2" => ShapeV2(ciphertext)
        /\ result.formatVersion = "v1" => ShapeV1(ciphertext)
        /\ result.formatVersion = "empty" => ciphertext = <<>>

\* a v1 ciphertext decoded: a result without a verified checksum
C23_Witness ==
    /\ op = "decode"
    /\ origin = "v1"
    /\ result.status = "ok"
    /\ result.formatVersion = "v1"
    /\ result.crcVerified = FALSE
    /\ result.plaintext # <<>>

\* C24: for a non-empty string with n UTF-8 bytes, detectFormat(encode(s))
\* reports version "v2", hasCRC = true, mainCipherLength = 4n and
\* crcLength = 16.
C24_EncodeDetectedV2 ==
    (op = "detectFormat" /\ origin = "encoded" /\ plaintext # <<>>) =>
        /\ result.version = "v2"
        /\ result.hasCRC = TRUE
        /\ result.isValid = TRUE
        /\ result.mainCipherLength = 4 * Len(TextEncoderEncode(plaintext))
        /\ result.crcLength = 16

\* the encoder output of a string of six UTF-8 bytes, detected
C24_Witness ==
    /\ op = "detectFormat"
    /\ origin = "encoded"
    /\ Len(TextEncoderEncode(plaintext)) = 6
    /\ result.version = "v2"
    /\ result.mainCipherLength = 24

\* C25: in a trace that is not a single step numbered 0 the steps are
\* numbered 1, 2, 3, ... in list order: 1..6 for the encoding trace, 1..6
\* for the decoding trace of a v2 ciphertext, 1..5 for that of a v1
\* ciphertext.
C25_ConsecutiveSteps ==
    op \in {"encodingDemo", "decodingDemo"} =>
        LET steps == result.steps
        IN  /\ ~(Len(steps) = 1 /\ steps[1].step = 0) =>
                   \A k \in 1..Len(steps) : steps[k].step = k
            /\ (op = "encodingDemo" /\ plaintext # <<>>) => Len(steps) = 6
            /\ (op = "decodingDemo" /\ OverAlphabet(ciphertext)
                    /\ ShapeV2(ciphertext)) => Len(steps) = 6
            /\ (op = "decodingDemo" /\ OverAlphabet(ciphertext)
                    /\ ShapeV1(ciphertext)) => Len(steps) = 5

\* the decoding trace of a v1 ciphertext, numbered 1..5
C25_Witness ==
    /\ op = "decodingDemo"
    /\ origin = "v1"
    /\ ShapeV1(ciphertext)
    /\ [k \in 1..Len(result.steps) |-> result.steps[k].step] = <<1, 2, 3, 4, 5>>
    /\ result.steps[2].name = "decoding.step3"

\* C26: an encoder output of a non-empty string with one symbol replaced by
\* a different symbol, in the main cipher or in the checksum block, never
\* decodes to a result; a replacement in the checksum block leaves the
\* text as it was and fails on the checksum.
C26_OneSymbolOffFails ==
    (origin = "flipped" /\ op = "decode" /\ plaintext # <<>>) =>
        /\ flipPos \in 1..Len(ciphertext)
        /\ ciphertext # encode(plaintext)
        /\ [ciphertext EXCEPT ![flipPos] = encode(plaintext)[flipPos]]
               = encode(plaintext)
        /\ result.status = "error"
        /\ result.kind \in {"DecodingError", "IntegrityError"}
        /\ flipPos > Len(ciphertext) - 16 => result.kind = "IntegrityError"

\* a symbol of the checksum block replaced, and decode failing on the checksum
C26_Witness ==
    /\ origin = "flipped"
    /\ op = "decode"
    /\ plaintext = <<72, 105>>
    /\ flipPos = Len(ciphertext) - 15
    /\ result.status = "error"
    /\ result.kind = "IntegrityError"

\* C27: whenever decode reaches byte reassembly, the main cipher handed to
\* _decodeCipher has a length that is a positive multiple of 4, its bit
\* string is a whole number of bytes, exactly mainCipherLength / 4 bytes
\* are recovered and no incomplete trailing byte is ignored.
C27_WholeBytes ==
    op = "decodeCipher" =>
        /\ Len(result.mainCipher) = result.mainCipherLength
        /\ result.mainCipherLength > 0
        /\ result.mainCipherLength % 4 = 0
        /\ Len(result.binaryString) = 2 * result.mainCipherLength
        /\ result.ignoredBits = 0
        /\ 4 * Len(result.bytes) = result.mainCipherLength

\* a hand-typed v2 ciphertext of 20 symbols: one byte is reassembled
C27_Witness ==
    /\ op = "decodeCipher"
    /\ origin = "typed"
    /\ Len(ciphertext) = 20
    /\ result.mainCipherLength = 4
    /\ Len(result.bytes) = 1

\* ------------------------------------------------------------- OI1App
\* The page: the four text fields with their counters, the encode, decode
\* and copy buttons (disabled flags), the validation status, the focused
\* element, the toast and the error box, and the clipboard reads that
\* pasteText is waiting for. ui.last names the handler that ran last. The
\* timers that hide the toast and the error box are left out.
\* handleEncode and handleDecode contain no await, so each runs as one step.

MaxPastes == 1

MaxCopies == 1

\* the code units String.prototype.trim removes
WhiteSpaceUnits ==
    {9, 10, 11, 12, 13, 32, 160, 5760, 8232, 8233, 8239, 8287, 12288, 65279}
        \cup (8192..8202)

\* value.trim().length > 0, for a field value of code units
HasText(s) == \E i \in 1..Len(s) : s[i] \notin WhiteSpaceUnits

\* the characters U+0020..U+007E, in order, without U+0060 (the grave
\* accent), which a string of this module cannot hold
AsciiPrintable ==
    <<
      " ", "!", "\"", "#", "$", "%", "&", "'", "(", ")", "*", "+",
      ",", "-", ".", "/", "0", "1", "2", "3", "4", "5", "6", "7",
      "8", "9", ":", ";", "<", "=", ">", "?", "@", "A", "B", "C",
      "D", "E", "F", "G", "H", "I", "J", "K", "L", "M", "N", "O",
      "P", "Q", "R", "S", "T", "U", "V", "W", "X", "Y", "Z", "[",
      "\\", "]", "^", "_", "a", "b", "c", "d", "e", "f", "g",
      "h", "i", "j", "k", "l", "m", "n", "o", "p", "q", "r", "s",
      "t", "u", "v", "w", "x", "y", "z", "{", "|", "}", "~"
    >>

\* the character of a code unit of a field value, as the operators of the
\* codec take it: a one-character string. Any other code
\* unit becomes a string of its own that is no symbol of the codec.
fromCharCode(unit) ==
    CASE unit = 9 -> "\t"
      [] unit = 10 -> "\n"
      [] unit = 11 -> ""
      [] unit = 12 -> "\f"
      [] unit = 13 -> "\r"
      [] unit \in 32..95 -> AsciiPrintable[unit - 31]
      [] unit \in 97..126 -> AsciiPrintable[unit - 32]
      [] OTHER -> "\\u" \o ToString(unit)

\* the value of the cipher input field, a sequence of code units, as the
\* sequence of characters handed to the decoder
FieldChars(units) == [i \in 1..Len(units) |-> fromCharCode(units[i])]

\* what the plaintext field is edited to
UiPlaintexts == {<<>>, <<32>>, <<72>>, <<65279>>}

\* what the cipher input field is edited to, or what the clipboard holds:
\* nothing, a space, a form feed and a no-break space, "O", "OX", "0OIO",
\* "IOOO", and the ciphertext of "Hi"
UiCipherInputs ==
    {<<>>, <<32>>, <<12, 160>>, <<79>>, <<79, 88>>,
     <<48, 79, 73, 79>>, <<73, 79, 79, 79>>,
     <<48, 79, 73, 79, 48, 73, 73, 48,
       48, 79, 108, 48, 79, 48, 48, 108,
       79, 79, 108, 73, 79, 79, 108, 73>>}

\* String(object) of the object decode returns: "[object Object]"
ObjectString ==
    <<91, 111, 98, 106, 101, 99, 116, 32, 79, 98, 106, 101, 99, 116, 93>>

\* OI1App.updateButtonStates
updateButtonStates(u) ==
    LET hasPlaintext == HasText(u.plaintext)
        hasCiphertext == HasText(u.cipherInput)
        isValidCipher ==
            validateCiphertext(FieldChars(u.cipherInput)).isValid
    IN  [u EXCEPT !.encodeBtnDisabled = ~hasPlaintext,
                  !.decodeBtnDisabled = ~hasCiphertext \/ ~isValidCipher,
                  !.copyCipherBtnDisabled = (Len(u.ciphertext) = 0),
                  !.copyPlainBtnDisabled = (Len(u.plaintextOutput) = 0)]

\* OI1App.validateCipherInput
validateCipherInput(u) ==
    IF u.cipherInput = <<>> THEN [u EXCEPT !.validationStatus = "none"]
    ELSE IF validateCiphertext(FieldChars(u.cipherInput)).isValid
    THEN [u EXCEPT !.validationStatus = "valid"]
    ELSE [u EXCEPT !.validationStatus = "invalid"]

\* OI1App.handleInputChange
handleInputChange(u) ==
    updateButtonStates([u EXCEPT !.plaintextCount = Len(u.plaintext)])

\* OI1App.handleCipherInputChange
handleCipherInputChange(u) ==
    updateButtonStates(
        validateCipherInput([u EXCEPT !.cipherInputCount = Len(u.cipherInput)]))

\* OI1App.handleEncode; the finally block runs setButtonLoading(encodeBtn,
\* false) on every path, the early return included
handleEncode(u) ==
    IF ~HasText(u.plaintext)
    THEN [u EXCEPT !.toast = "invalidInput", !.encodeBtnDisabled = FALSE,
                   !.last = "encodeBlank"]
    ELSE LET c == encode(u.plaintext)
         IN  [u EXCEPT !.ciphertext = c, !.ciphertextCount = Len(c),
                       !.toast = "encodeSuccess", !.encodeBtnDisabled = FALSE,
                       !.last = "encodeDone"]

\* OI1App.handleDecode; the object decode returns is assigned to the value
\* of the output field, which converts it to a string
handleDecode(u) ==
    IF ~HasText(u.cipherInput)
    THEN [u EXCEPT !.toast = "invalidInput", !.decodeBtnDisabled = FALSE,
                   !.last = "decodeBlank"]
    ELSE LET d == decode(FieldChars(u.cipherInput))
         IN  IF d.status = "ok"
             THEN [u EXCEPT !.plaintextOutput = ObjectString,
                            !.plaintextOutputCount = Len(ObjectString),
                            !.toast = "decodeSuccess",
                            !.decodeBtnDisabled = FALSE,
                            !.last = "decodeDone"]
             ELSE [u EXCEPT !.errorMessage = d.kind,
                            !.decodeBtnDisabled = FALSE,
                            !.last = "decodeError"]

\* OI1App.clearInput('plaintext')
clearPlaintext(u) ==
    [updateButtonStates([u EXCEPT !.plaintext = <<>>, !.plaintextCount = 0])
        EXCEPT !.toast = "clearSuccess", !.last = "clear"]

\* OI1App.clearInput('cipherInput')
clearCipherInput(u) ==
    [updateButtonStates([u EXCEPT !.cipherInput = <<>>, !.cipherInputCount = 0])
        EXCEPT !.validationStatus = "none", !.toast = "clearSuccess",
               !.last = "clear"]

UiUnchanged ==
    UNCHANGED <<plaintext, ciphertext, origin, flipPos, op, result, table,
                history, watch>>

\* ClipboardHelper.checkModernAPISupport, fixed when the page is constructed
UiInit ==
    /\ \E isModernAPI \in BOOLEAN :
           ui = [UiInitial EXCEPT !.isModernAPI = isModernAPI]
    /\ watch = WatchInitial
    /\ table = generateTable
    /\ history = <<>>
    /\ plaintext = <<>>
    /\ ciphertext = <<>>
    /\ origin = "ui"
    /\ flipPos = 0
    /\ op = "none"
    /\ result = NoResult

\* the user moves the focus
Focus(element) ==
    /\ element # ui.activeElement
    /\ ui' = [ui EXCEPT !.activeElement = element]
    /\ UiUnchanged

\* the user edits the plaintext field (input event)
InputPlaintext(value) ==
    /\ value # ui.plaintext
    /\ ui' = handleInputChange([ui EXCEPT !.plaintext = value,
                                           !.activeElement = "plaintext",
                                           !.last = "input"])
    /\ UiUnchanged

\* the user edits the cipher input field (input event)
InputCipher(value) ==
    /\ value # ui.cipherInput
    /\ ui' = handleCipherInputChange([ui EXCEPT !.cipherInput = value,
                                                 !.activeElement = "cipherInput",
                                                 !.last = "input"])
    /\ UiUnchanged

\* a click on the encode button, which a disabled button does not deliver
ClickEncode ==
    /\ ~ui.encodeBtnDisabled
    /\ ui' = handleEncode(ui)
    /\ UiUnchanged

\* a click on the decode button
ClickDecode ==
    /\ ~ui.decodeBtnDisabled
    /\ ui' = handleDecode(ui)
    /\ UiUnchanged

\* a click on a clear button
ClickClear(elementName) ==
    /\ ui' = IF elementName = "plaintext" THEN clearPlaintext(ui)
              ELSE clearCipherInput(ui)
    /\ UiUnchanged

\* handleKeyboardShortcuts for Ctrl/Cmd+Enter
ShortcutEnter ==
    /\ ui.activeElement \in {"plaintext", "cipherInput"}
    /\ ui' = IF ui.activeElement = "plaintext" THEN handleEncode(ui)
              ELSE handleDecode(ui)
    /\ UiUnchanged

\* handleKeyboardShortcuts for Ctrl/Cmd+K
ShortcutK ==
    /\ ui.activeElement \in {"plaintext", "cipherInput"}
    /\ ui' = IF ui.activeElement = "plaintext" THEN clearPlaintext(ui)
              ELSE clearCipherInput(ui)
    /\ UiUnchanged

\* a click on the paste button: pasteText up to its await. Without the
\* modern API the read is pasteLegacy, which rejects at once.
ClickPaste ==
    /\ ui.isModernAPI => ui.pastes < MaxPastes
    /\ ui' = IF ui.isModernAPI
              THEN [ui EXCEPT !.pastes = @ + 1]
              ELSE [ui EXCEPT !.toast = "pasteError", !.last = "paste"]
    /\ UiUnchanged

\* the clipboard read of pasteText resolves with a text
PasteResolved(text) ==
    /\ ui.pastes > 0
    /\ ui' = IF text = <<>>
              THEN [ui EXCEPT !.pastes = @ - 1, !.last = "paste"]
              ELSE [validateCipherInput(updateButtonStates(
                        [ui EXCEPT !.cipherInput = text,
                                   !.cipherInputCount = Len(text)]))
                        EXCEPT !.pastes = @ - 1, !.toast = "pasteSuccess",
                               !.last = "paste"]
    /\ UiUnchanged

\* the clipboard read of pasteText fails, and pasteLegacy after it
PasteRejected ==
    /\ ui.pastes > 0
    /\ ui' = [ui EXCEPT !.pastes = @ - 1, !.toast = "pasteError",
                         !.last = "paste"]
    /\ UiUnchanged

\* ClipboardHelper.copyLegacy: the temporary textarea takes the focus and
\* is removed, then the toast tells whether execCommand('copy') succeeded
copyLegacy(u, successful) ==
    [u EXCEPT !.activeElement = "body",
              !.toast = IF successful THEN "copySuccess" ELSE "copyError",
              !.last = "copy"]

\* a click on a copy button, which a disabled button does not deliver:
\* copyText up to its await. Without the modern API the write is copyLegacy,
\* which settles at once.
ClickCopy(elementName, successful) ==
    /\ IF elementName = "ciphertext" THEN ~ui.copyCipherBtnDisabled
                                     ELSE ~ui.copyPlainBtnDisabled
    /\ ui.isModernAPI => ui.copies < MaxCopies
    /\ ui' = IF ui[elementName] = <<>> THEN ui
              ELSE IF ui.isModernAPI THEN [ui EXCEPT !.copies = @ + 1]
              ELSE copyLegacy(ui, successful)
    /\ UiUnchanged

\* the clipboard write of copyText resolves
CopyResolved ==
    /\ ui.copies > 0
    /\ ui' = [ui EXCEPT !.copies = @ - 1, !.toast = "copySuccess",
                         !.last = "copy"]
    /\ UiUnchanged

\* the clipboard write of copyText fails and copyModern falls back to
\* copyLegacy
CopyRejected(successful) ==
    /\ ui.copies > 0
    /\ ui' = [copyLegacy(ui, successful) EXCEPT !.copies = @ - 1]
    /\ UiUnchanged

\* OI1App.onLanguageChanged
LanguageChanged ==
    /\ ui.last # "language"
    /\ ui' = [validateCipherInput(updateButtonStates(ui))
                 EXCEPT !.last = "language"]
    /\ UiUnchanged

UiNext ==
    \/ \E element \in {"plaintext", "cipherInput", "body"} : Focus(element)
    \/ \E value \in UiPlaintexts : InputPlaintext(value)
    \/ \E value \in UiCipherInputs : InputCipher(value)
    \/ ClickEncode
    \/ ClickDecode
    \/ \E elementName \in {"plaintext", "cipherInput"} : ClickClear(elementName)
    \/ ShortcutEnter
    \/ ShortcutK
    \/ ClickPaste
    \/ \E text \in UiCipherInputs : PasteResolved(text)
    \/ PasteRejected
    \/ \E elementName \in {"ciphertext", "plaintextOutput"},
          successful \in BOOLEAN : ClickCopy(elementName, successful)
    \/ CopyResolved
    \/ \E successful \in BOOLEAN : CopyRejected(successful)
    \/ LanguageChanged

UiSpec == UiInit /\ [][UiNext]_vars

\* C22: after handleDecode completes successfully on a ciphertext c, the
\* plaintext output field holds the plaintext component of decode(c) and its
\* character count shows the length of that string.
C22_OutputHoldsPlaintext ==
    ui.last = "decodeDone" =>
        /\ ui.plaintextOutput = decode(FieldChars(ui.cipherInput)).plaintext
        /\ ui.plaintextOutputCount = Len(decode(FieldChars(ui.cipherInput)).plaintext)

\* C28: whenever no handler is running, the encode button is enabled only if
\* the plaintext field is non-blank, and the decode button is enabled only if
\* the cipher input field is non-blank and passes validateCiphertext.
C28_ButtonsFollowFields ==
    (ui.pastes = 0 /\ ui.copies = 0) =>
        /\ ~ui.encodeBtnDisabled => HasText(ui.plaintext)
        /\ ~ui.decodeBtnDisabled =>
               /\ HasText(ui.cipherInput)
               /\ validateCiphertext(FieldChars(ui.cipherInput)).isValid

\* C29: once handleEncode has completed successfully and written a non-empty
\* ciphertext to the output field, the copy-ciphertext button is enabled;
\* likewise the copy-plaintext button after a successful handleDecode.
C29_CopyEnabledAfterSuccess ==
    /\ (ui.last = "encodeDone" /\ ui.ciphertext # <<>>) =>
           ~ui.copyCipherBtnDisabled
    /\ (ui.last = "decodeDone" /\ ui.plaintextOutput # <<>>) =>
           ~ui.copyPlainBtnDisabled

\* ---------------------------------------- ClipboardHelper.onClipboardChange
\* One watcher: the closure variables lastContent and isMonitoring, and the
\* place of the polling loop: "reading" while monitor waits for
\* this.paste(), "timer" while its setTimeout is pending, "done" once a
\* timer has found isMonitoring false. watch.delivered lists the contents
\* handed to the callback; watch.callbackAfterStop records that the callback
\* was invoked after the stop function had been called. onClipboardChange
\* calls monitor before it returns, so the first read is in flight when the
\* caller gets the stop function.

MaxReads == 4

\* what a clipboard read can resolve with
ClipboardContents == {<<>>, <<"O">>, <<"O", "I">>}

WatchUnchanged ==
    UNCHANGED <<plaintext, ciphertext, origin, flipPos, op, result, table,
                history, ui>>

ClipboardInit ==
    /\ watch = WatchInitial
    /\ ui = UiInitial
    /\ table = generateTable
    /\ history = <<>>
    /\ plaintext = <<>>
    /\ ciphertext = <<>>
    /\ origin = "clipboard"
    /\ flipPos = 0
    /\ op = "none"
    /\ result = NoResult

\* the read that monitor awaits resolves: the rest of the try block, then
\* setTimeout(monitor, 1000); isMonitoring is not looked at here
WatchReadResolved(content) ==
    /\ watch.pc = "reading"
    /\ watch' = IF content # watch.lastContent
                 THEN [watch EXCEPT
                          !.lastContent = content,
                          !.delivered = Append(@, content),
                          !.callbackAfterStop = @ \/ watch.stopCalled,
                          !.pc = "timer"]
                 ELSE [watch EXCEPT !.pc = "timer"]
    /\ WatchUnchanged

\* the read fails: the empty catch block, then setTimeout(monitor, 1000)
WatchReadRejected ==
    /\ watch.pc = "reading"
    /\ watch' = [watch EXCEPT !.pc = "timer"]
    /\ WatchUnchanged

\* the timer fires: monitor returns if isMonitoring is false, and starts
\* the next read otherwise
WatchTimerFires ==
    /\ watch.pc = "timer"
    /\ watch.isMonitoring => watch.reads < MaxReads
    /\ watch' = IF ~watch.isMonitoring
                 THEN [watch EXCEPT !.pc = "done"]
                 ELSE [watch EXCEPT !.pc = "reading", !.reads = @ + 1]
    /\ WatchUnchanged

\* the caller calls the function onClipboardChange returned
WatchStop ==
    /\ watch' = [watch EXCEPT !.isMonitoring = FALSE, !.stopCalled = TRUE]
    /\ WatchUnchanged

ClipboardNext ==
    \/ \E content \in ClipboardContents : WatchReadResolved(content)
    \/ WatchReadRejected
    \/ WatchTimerFires
    \/ WatchStop

ClipboardSpec == ClipboardInit /\ [][ClipboardNext]_vars

\* C30: after the stop function returned by onClipboardChange has been
\* called, the change callback is never invoked again, even when a read
\* started by the polling loop was in flight when stop was called.
C30_NoCallbackAfterStop == ~watch.callbackAfterStop
====
